---- MODULE Spec2Model ----
(***************************************************************************)
(* Model of two consensus-layer components of the Tari base layer:         *)
(*   - FixedByteArray (proof_of_work/monero_rx/fixed_array.rs): a buffer   *)
(*     of at most 63 bytes with a length-prefixed borsh encoding;          *)
(*   - OrphanBlockValidator (validation/block_validators/orphan.rs): the   *)
(*     ordered, fail-fast pipeline of stateless block checks.              *)
(***************************************************************************)
EXTENDS Integers, Sequences, FiniteSets, TLC

VARIABLES
    \* ---- FixedByteArray scenario ----
    bytes,      \* the byte sequence handed to from_bytes / used as a raw stream
    tail,       \* bytes appended to the writer after serialize
    cpc,        \* position in the codec scenario
    fb,         \* Result<FixedByteArray, ByteArrayError> of from_bytes
    writer,     \* the Vec<u8> written by serialize
    dec,        \* outcome of deserialize (result and the advanced buf)
    lhs,        \* Option<FixedByteArray>: left operand of ==
    rhs,        \* Option<FixedByteArray>: right operand of ==
    eqr,        \* result of lhs == rhs
    \* ---- OrphanBlockValidator scenario ----
    block,      \* the candidate block
    self,       \* the validator (fields fixed by new)
    vpc,        \* position inside validate
    idx,        \* index of the output visited by the for loop
    constants,  \* Option: the consensus constants looked up for the height
    calls,      \* log of the helper functions invoked, in order
    flags,      \* the (helper, bypass value) pairs passed so far
    ret         \* Option<Result<(), ValidationError>> returned by validate

codecVars == <<bytes, tail, cpc, fb, writer, dec, lhs, rhs, eqr>>
validatorVars == <<block, self, vpc, idx, constants, calls, flags, ret>>
vars == <<bytes, tail, cpc, fb, writer, dec, lhs, rhs, eqr,
          block, self, vpc, idx, constants, calls, flags, ret>>

(***************************************************************************)
(* Bounds of the model                                                     *)
(***************************************************************************)
MaxExtra == 2        \* streams are up to MAX_ARR_SIZE + MaxExtra bytes long (plus a head byte)
MaxShort == 2        \* every sequence over SmallBytes up to this length is an input
MaxOutputs == 2      \* outputs in a block body
MaxViolations == 2   \* rules a block violates simultaneously (besides outputs and balance)

(***************************************************************************)
(* FixedByteArray                                                          *)
(***************************************************************************)
MAX_ARR_SIZE == 63

U8 == 0..255

Zeros == [i \in 1..MAX_ARR_SIZE |-> 0]

\* Option and Result values
None == <<>>
Some(x) == <<x>>
Ok(v) == [ok |-> TRUE, err |-> "", value |-> Some(v)]
Err(e) == [ok |-> FALSE, err |-> e, value |-> None]

IncorrectLength == "ByteArrayError::IncorrectLength"
LengthExceeded == "InvalidInput: length exceeded maximum of 63-bytes for FixedByteArray"
UnexpectedLength == "Unexpected length of input"

\* impl Default for FixedByteArray
default == [elems |-> Zeros, len |-> 0]

\* FixedByteArray::new
new == default

\* FixedByteArray::len
len(s) == s.len

\* impl Deref: &self.elems[..self.len as usize]
deref(s) == SubSeq(s.elems, 1, s.len)

\* FixedByteArray::as_slice: &self[..self.len()]
as_slice(s) == SubSeq(deref(s), 1, len(s))

is_full(s) == len(s) = MAX_ARR_SIZE

is_empty(s) == s.len = 0

\* u8::try_from(usize)
u8_try_from(n) == IF n \in U8 THEN Ok(n) ELSE Err(IncorrectLength)

\* a from_bytes whose capacity test is off by one
from_bytes_ge(bs) ==
    IF Len(bs) >= MAX_ARR_SIZE THEN Err(IncorrectLength)
    ELSE Ok([elems |-> [i \in 1..MAX_ARR_SIZE |-> IF i <= Len(bs) THEN bs[i] ELSE 0],
             len |-> Len(bs)])

\* ByteArray::from_bytes
from_bytes(bs) ==
    IF Len(bs) > MAX_ARR_SIZE THEN Err(IncorrectLength)
    ELSE LET l == u8_try_from(Len(bs)) IN
         IF ~l.ok THEN Err(IncorrectLength)
         ELSE LET n == l.value[1] IN
              Ok([elems |-> [i \in 1..MAX_ARR_SIZE |-> IF i <= n THEN bs[i] ELSE Zeros[i]],
                  len |-> n])

\* ByteArray::as_bytes
as_bytes(s) == as_slice(s)

\* iter().take(n)
Take(s, n) == SubSeq(s, 1, IF n < Len(s) THEN n ELSE Len(s))

\* a serialize that writes the whole storage instead of the used prefix
serialize_all(s, w) == (w \o <<s.len>>) \o s.elems

\* BorshSerialize::serialize into a Vec<u8> (writes to a Vec never fail)
serialize(s, w) == (w \o <<s.len>>) \o Take(as_slice(s), s.len)

\* derive(PartialEq) comparing the storage only
eq_elems_only(x, y) == x.elems = y.elems

\* derive(PartialEq, Eq): field-wise comparison of elems and len
eq(x, y) == x.elems = y.elems /\ x.len = y.len

\* u8::deserialize(buf): one byte off the front of the slice, or an error
\* that leaves the slice where it was
u8_deserialize(buf) ==
    IF buf = <<>> THEN [ok |-> FALSE, err |-> UnexpectedLength, value |-> 0, buf |-> buf]
    ELSE [ok |-> TRUE, err |-> "", value |-> Head(buf), buf |-> Tail(buf)]

\* for _ in 0..len { bytes.push(u8::deserialize(buf)?) }
\* n is the number of iterations left, c the count of u8::deserialize calls
RECURSIVE ReadLoop(_, _, _, _)
ReadLoop(buf, acc, n, c) ==
    IF n = 0 THEN [ok |-> TRUE, err |-> "", bytes |-> acc, buf |-> buf, calls |-> c]
    ELSE LET r == u8_deserialize(buf) IN
         IF ~r.ok THEN [ok |-> FALSE, err |-> r.err, bytes |-> acc, buf |-> r.buf, calls |-> c + 1]
         ELSE ReadLoop(r.buf, Append(acc, r.value), n - 1, c + 1)

\* a read loop that stops at the end of the input instead of failing
RECURSIVE ReadAvailable(_, _, _, _)
ReadAvailable(buf, acc, n, c) ==
    IF n = 0 \/ buf = <<>> THEN [ok |-> TRUE, err |-> "", bytes |-> acc, buf |-> buf, calls |-> c]
    ELSE ReadAvailable(Tail(buf), Append(acc, Head(buf)), n - 1, c + 1)

\* Ok(Self::from_bytes(bytes.as_bytes()).unwrap())
Unwrapped(r, buf, c) ==
    IF r.ok THEN [status |-> "Ok", err |-> "", value |-> r.value, buf |-> buf, calls |-> c]
    ELSE [status |-> "Panic", err |-> r.err, value |-> None, buf |-> buf, calls |-> c]

Failed(e, buf, c) == [status |-> "Err", err |-> e, value |-> None, buf |-> buf, calls |-> c]

\* a deserialize that tests the length only after collecting the payload
deserialize_late_check(buf) ==
    LET l == u8_deserialize(buf) IN
    IF ~l.ok THEN Failed(l.err, l.buf, 1)
    ELSE LET r == ReadLoop(l.buf, <<>>, l.value, 1) IN
         IF ~r.ok THEN Failed(r.err, r.buf, r.calls)
         ELSE IF l.value > MAX_ARR_SIZE THEN Failed(LengthExceeded, r.buf, r.calls)
         ELSE Unwrapped(from_bytes(r.bytes), r.buf, r.calls)

\* a deserialize without the length test
deserialize_no_check(buf) ==
    LET l == u8_deserialize(buf) IN
    IF ~l.ok THEN Failed(l.err, l.buf, 1)
    ELSE LET r == ReadLoop(l.buf, <<>>, l.value, 1) IN
         IF ~r.ok THEN Failed(r.err, r.buf, r.calls)
         ELSE Unwrapped(from_bytes(r.bytes), r.buf, r.calls)

\* a deserialize that accepts a payload shorter than declared
deserialize_partial(buf) ==
    LET l == u8_deserialize(buf) IN
    IF ~l.ok THEN Failed(l.err, l.buf, 1)
    ELSE IF l.value > MAX_ARR_SIZE THEN Failed(LengthExceeded, l.buf, 1)
    ELSE LET r == ReadAvailable(l.buf, <<>>, l.value, 1) IN
         Unwrapped(from_bytes(r.bytes), r.buf, r.calls)

\* BorshDeserialize::deserialize(buf: &mut &[u8]); buf is the slice as the
\* call leaves it, calls the number of u8::deserialize invocations
deserialize(buf) ==
    LET l == u8_deserialize(buf) IN
    IF ~l.ok THEN Failed(l.err, l.buf, 1)
    ELSE IF l.value > MAX_ARR_SIZE THEN Failed(LengthExceeded, l.buf, 1)
    ELSE LET r == ReadLoop(l.buf, <<>>, l.value, 1) IN
         IF ~r.ok THEN Failed(r.err, r.buf, r.calls)
         ELSE Unwrapped(from_bytes(r.bytes), r.buf, r.calls)

(***************************************************************************)
(* Inputs of the codec scenario                                            *)
(***************************************************************************)
SmallBytes == {0, 1, 63, 64}

RECURSIVE SeqsUpTo(_, _)
SeqsUpTo(S, n) ==
    IF n = 0 THEN {<<>>}
    ELSE LET shorter == SeqsUpTo(S, n - 1) IN
         shorter \cup {Append(s, x) : s \in shorter, x \in S}

ShortSeqs == SeqsUpTo(SmallBytes, MaxShort)

\* <<off, off + step, off + 2 step, ...>> modulo 256, n bytes long
Pattern(n, p) == [i \in 1..n |-> (p[1] + (i - 1) * p[2]) % 256]

Patterns == {<<1, 1>>, <<0, 0>>, <<255, 0>>}

MaxLen == MAX_ARR_SIZE + MaxExtra

\* declared lengths worth putting in front of an n-byte payload
Heads(n) == ({n - 1, n, n + 1} \cup {MAX_ARR_SIZE, MAX_ARR_SIZE + 1, 255}) \cap U8

Bodies == {Pattern(n, p) : n \in 0..MaxLen, p \in Patterns}

Inputs == ShortSeqs \cup Bodies \cup UNION {{<<h>> \o s : h \in Heads(Len(s))} : s \in Bodies}

Tails == {<<>>, <<1, 2, 3>>, <<64>>}

\* buffers the right operand of == is drawn from, each built by the API
Others ==
    {new}
    \cup {from_bytes(s).value[1] : s \in {t \in ShortSeqs : from_bytes(t).ok}}
    \cup {deserialize(s).value[1] : s \in {t \in ShortSeqs : deserialize(t).status = "Ok"}}

NoDec == [status |-> "", err |-> "", value |-> None, buf |-> <<>>, calls |-> 0]
NoResult == [ok |-> FALSE, err |-> "", value |-> None]

ValidatorIdle ==
    /\ block = [height |-> 0, violations |-> {}, outputs |-> <<>>,
                balance_closes |-> TRUE, range_proofs_valid |-> TRUE]
    /\ self = [rules |-> "rules", bypass_range_proof_verification |-> FALSE, factories |-> "factories"]
    /\ vpc = "idle"
    /\ idx = 0
    /\ constants = None
    /\ calls = <<>>
    /\ flags = {}
    /\ ret = None

InitCodec ==
    /\ bytes \in Inputs
    /\ tail \in Tails
    /\ cpc = "start"
    /\ fb = NoResult
    /\ writer = <<>>
    /\ dec = NoDec
    /\ lhs = None
    /\ rhs = None
    /\ eqr = FALSE
    /\ ValidatorIdle

\* FixedByteArray::new()
New ==
    /\ cpc = "start"
    /\ lhs' = Some(new)
    /\ cpc' = "created"
    /\ UNCHANGED <<bytes, tail, fb, writer, dec, rhs, eqr>>
    /\ UNCHANGED validatorVars

\* FixedByteArray::from_bytes(&bytes)
FromBytes ==
    /\ cpc = "start"
    /\ fb' = from_bytes(bytes)
    /\ lhs' = fb'.value
    /\ cpc' = IF fb'.ok THEN "built" ELSE "rejected"
    /\ UNCHANGED <<bytes, tail, writer, dec, rhs, eqr>>
    /\ UNCHANGED validatorVars

\* fixed_byte_array.serialize(&mut buf) on an empty Vec
Serialize ==
    /\ cpc = "built"
    /\ writer' = serialize(lhs[1], <<>>)
    /\ cpc' = "serialized"
    /\ UNCHANGED <<bytes, tail, fb, dec, lhs, rhs, eqr>>
    /\ UNCHANGED validatorVars

\* buf.extend_from_slice(&tail)
Extend ==
    /\ cpc = "serialized"
    /\ writer' = writer \o tail
    /\ cpc' = "extended"
    /\ UNCHANGED <<bytes, tail, fb, dec, lhs, rhs, eqr>>
    /\ UNCHANGED validatorVars

\* FixedByteArray::deserialize(buf) on what was written
DeserializeWritten ==
    /\ cpc = "extended"
    /\ dec' = deserialize(writer)
    /\ rhs' = dec'.value
    /\ eqr' = IF dec'.value # None THEN eq(lhs[1], dec'.value[1]) ELSE FALSE
    /\ cpc' = "decoded"
    /\ UNCHANGED <<bytes, tail, fb, writer, lhs>>
    /\ UNCHANGED validatorVars

\* FixedByteArray::deserialize(buf) on untrusted bytes
DeserializeRaw ==
    /\ cpc = "start"
    /\ dec' = deserialize(bytes)
    /\ lhs' = dec'.value
    /\ cpc' = "raw_decoded"
    /\ UNCHANGED <<bytes, tail, fb, writer, rhs, eqr>>
    /\ UNCHANGED validatorVars

\* lhs == other, for a buffer obtained from new, from_bytes or deserialize
Compare ==
    /\ cpc \in {"created", "built", "raw_decoded"}
    /\ lhs # None
    /\ \E other \in Others :
        /\ rhs' = Some(other)
        /\ eqr' = eq(lhs[1], other)
    /\ cpc' = "compared"
    /\ UNCHANGED <<bytes, tail, fb, writer, dec, lhs>>
    /\ UNCHANGED validatorVars

NextCodec ==
    \/ New
    \/ FromBytes
    \/ Serialize
    \/ Extend
    \/ DeserializeWritten
    \/ DeserializeRaw
    \/ Compare

SpecCodec == InitCodec /\ [][NextCodec]_vars

(***************************************************************************)
(* OrphanBlockValidator                                                    *)
(***************************************************************************)
Heights == {0, 1, 2}

\* the helpers whose verdict depends on the block as a whole
BlockChecks ==
    {"validate_versions", "check_block_weight", "check_sorting_and_duplicates",
     "check_total_burned", "check_maturity", "check_kernel_lock_height",
     "check_output_features", "check_coinbase_output"}

Output == [permitted_type : BOOLEAN, valid_vn_registration : BOOLEAN]

OutputSeqs == UNION {[1..n -> Output] : n \in 0..MaxOutputs}

ViolationSets == {v \in SUBSET BlockChecks : Cardinality(v) <= MaxViolations}

\* Result<(), ValidationError>
VOk == [ok |-> TRUE, err |-> "", output |-> 0]
VErr(e, i) == [ok |-> FALSE, err |-> e, output |-> i]

ValidatingGenesis == VErr("ValidatingGenesis", 0)

\* the verdict of a whole-block helper: the block either violates its rule or not
Verdict(fn, b) == IF fn \in b.violations THEN VErr(fn, 0) ELSE VOk

\* ConsensusManager::consensus_constants(height)
consensus_constants(rules, height) == [rules |-> rules, effective_from |-> height]

validate_versions(b, c) == Verdict("validate_versions", b)

check_block_weight(b, c) == Verdict("check_block_weight", b)

check_sorting_and_duplicates(b) == Verdict("check_sorting_and_duplicates", b)

check_permitted_output_types(c, b, i) ==
    IF b.outputs[i].permitted_type THEN VOk ELSE VErr("check_permitted_output_types", i)

check_validator_node_registration_utxo(c, b, i) ==
    IF b.outputs[i].valid_vn_registration THEN VOk
    ELSE VErr("check_validator_node_registration_utxo", i)

check_total_burned(b) == Verdict("check_total_burned", b)

check_maturity(height, b) == Verdict("check_maturity", b)

check_kernel_lock_height(height, b) == Verdict("check_kernel_lock_height", b)

check_output_features(b, rules) == Verdict("check_output_features", b)

check_coinbase_output(b, rules, factories) == Verdict("check_coinbase_output", b)

\* the balance must close and, unless bypassed, every range proof must verify
check_accounting_balance(b, rules, bypass, factories) ==
    IF ~b.balance_closes THEN VErr("check_accounting_balance", 0)
    ELSE IF ~bypass /\ ~b.range_proofs_valid THEN VErr("check_accounting_balance", 0)
    ELSE VOk

\* OrphanBlockValidator::new(rules, bypass_range_proof_verification, factories)
OrphanBlockValidator_new(rules, bypass, factories) ==
    [rules |-> rules, bypass_range_proof_verification |-> bypass, factories |-> factories]

CodecIdle ==
    /\ bytes = <<>>
    /\ tail = <<>>
    /\ cpc = "idle"
    /\ fb = NoResult
    /\ writer = <<>>
    /\ dec = NoDec
    /\ lhs = None
    /\ rhs = None
    /\ eqr = FALSE

InitValidator ==
    /\ block \in [height : Heights, violations : ViolationSets, outputs : OutputSeqs,
                  balance_closes : BOOLEAN, range_proofs_valid : BOOLEAN]
    /\ \E bypass \in BOOLEAN : self = OrphanBlockValidator_new("rules", bypass, "factories")
    /\ vpc = "validate"
    /\ idx = 0
    /\ constants = None
    /\ calls = <<>>
    /\ flags = {}
    /\ ret = None
    /\ CodecIdle

\* `helper(...)?`: log the call, then go on or return the helper's error
Try(fn, r, next, nextIdx) ==
    /\ calls' = Append(calls, [fn |-> fn, output |-> idx])
    /\ IF r.ok
       THEN /\ vpc' = next
            /\ idx' = nextIdx
            /\ ret' = ret
       ELSE /\ vpc' = "done"
            /\ idx' = idx
            /\ ret' = Some(r)

\* `helper(...);` with the result dropped
Ignore(fn, r, next, nextIdx) ==
    /\ calls' = Append(calls, [fn |-> fn, output |-> idx])
    /\ vpc' = next
    /\ idx' = nextIdx
    /\ ret' = ret

\* a validate without the height test
GenesisGuard_missing ==
    /\ vpc = "validate"
    /\ vpc' = "consensus_constants"
    /\ UNCHANGED <<block, self, idx, constants, calls, flags, ret>>
    /\ UNCHANGED codecVars

\* if height == 0 { return Err(ValidationError::ValidatingGenesis) }
GenesisGuard ==
    /\ vpc = "validate"
    /\ IF block.height = 0
       THEN /\ ret' = Some(ValidatingGenesis)
            /\ vpc' = "done"
       ELSE /\ ret' = ret
            /\ vpc' = "consensus_constants"
    /\ UNCHANGED <<block, self, idx, constants, calls, flags>>
    /\ UNCHANGED codecVars

\* let constants = self.rules.consensus_constants(height)
ConsensusConstants ==
    /\ vpc = "consensus_constants"
    /\ constants' = Some(consensus_constants(self.rules, block.height))
    /\ calls' = Append(calls, [fn |-> "consensus_constants", output |-> 0])
    /\ vpc' = "validate_versions"
    /\ UNCHANGED <<block, self, idx, flags, ret>>
    /\ UNCHANGED codecVars

ValidateVersions ==
    /\ vpc = "validate_versions"
    /\ Try("validate_versions", validate_versions(block, constants[1]), "check_block_weight", 0)
    /\ UNCHANGED <<block, self, constants, flags>>
    /\ UNCHANGED codecVars

\* check_block_weight with its error dropped
CheckBlockWeight_ignored ==
    /\ vpc = "check_block_weight"
    /\ Ignore("check_block_weight", check_block_weight(block, constants[1]),
              "check_sorting_and_duplicates", 0)
    /\ UNCHANGED <<block, self, constants, flags>>
    /\ UNCHANGED codecVars

CheckBlockWeight ==
    /\ vpc = "check_block_weight"
    /\ Try("check_block_weight", check_block_weight(block, constants[1]),
           "check_sorting_and_duplicates", 0)
    /\ UNCHANGED <<block, self, constants, flags>>
    /\ UNCHANGED codecVars

\* followed by the entry of `for output in block.body.outputs()`
CheckSortingAndDuplicates ==
    /\ vpc = "check_sorting_and_duplicates"
    /\ IF block.outputs = <<>>
       THEN Try("check_sorting_and_duplicates", check_sorting_and_duplicates(block),
                "check_total_burned", 0)
       ELSE Try("check_sorting_and_duplicates", check_sorting_and_duplicates(block),
                "check_permitted_output_types", 1)
    /\ UNCHANGED <<block, self, constants, flags>>
    /\ UNCHANGED codecVars

CheckPermittedOutputTypes ==
    /\ vpc = "check_permitted_output_types"
    /\ Try("check_permitted_output_types", check_permitted_output_types(constants[1], block, idx),
           "check_validator_node_registration_utxo", idx)
    /\ UNCHANGED <<block, self, constants, flags>>
    /\ UNCHANGED codecVars

\* check_validator_node_registration_utxo with its error dropped
CheckValidatorNodeRegistrationUtxo_ignored ==
    /\ vpc = "check_validator_node_registration_utxo"
    /\ IF idx < Len(block.outputs)
       THEN Ignore("check_validator_node_registration_utxo",
                   check_validator_node_registration_utxo(constants[1], block, idx),
                   "check_permitted_output_types", idx + 1)
       ELSE Ignore("check_validator_node_registration_utxo",
                   check_validator_node_registration_utxo(constants[1], block, idx),
                   "check_total_burned", 0)
    /\ UNCHANGED <<block, self, constants, flags>>
    /\ UNCHANGED codecVars

\* the last statement of the loop body: next output, or leave the loop
CheckValidatorNodeRegistrationUtxo ==
    /\ vpc = "check_validator_node_registration_utxo"
    /\ IF idx < Len(block.outputs)
       THEN Try("check_validator_node_registration_utxo",
                check_validator_node_registration_utxo(constants[1], block, idx),
                "check_permitted_output_types", idx + 1)
       ELSE Try("check_validator_node_registration_utxo",
                check_validator_node_registration_utxo(constants[1], block, idx),
                "check_total_burned", 0)
    /\ UNCHANGED <<block, self, constants, flags>>
    /\ UNCHANGED codecVars

CheckTotalBurned ==
    /\ vpc = "check_total_burned"
    /\ Try("check_total_burned", check_total_burned(block), "check_maturity", 0)
    /\ UNCHANGED <<block, self, constants, flags>>
    /\ UNCHANGED codecVars

CheckMaturity ==
    /\ vpc = "check_maturity"
    /\ Try("check_maturity", check_maturity(block.height, block), "check_kernel_lock_height", 0)
    /\ UNCHANGED <<block, self, constants, flags>>
    /\ UNCHANGED codecVars

CheckKernelLockHeight ==
    /\ vpc = "check_kernel_lock_height"
    /\ Try("check_kernel_lock_height", check_kernel_lock_height(block.height, block),
           "check_output_features", 0)
    /\ UNCHANGED <<block, self, constants, flags>>
    /\ UNCHANGED codecVars

CheckOutputFeatures ==
    /\ vpc = "check_output_features"
    /\ Try("check_output_features", check_output_features(block, self.rules),
           "check_coinbase_output", 0)
    /\ UNCHANGED <<block, self, constants, flags>>
    /\ UNCHANGED codecVars

CheckCoinbaseOutput ==
    /\ vpc = "check_coinbase_output"
    /\ Try("check_coinbase_output", check_coinbase_output(block, self.rules, self.factories),
           "check_accounting_balance", 0)
    /\ UNCHANGED <<block, self, constants, flags>>
    /\ UNCHANGED codecVars

\* check_accounting_balance called with the verification always on
CheckAccountingBalance_no_bypass ==
    /\ vpc = "check_accounting_balance"
    /\ flags' = flags \cup {[fn |-> "check_accounting_balance", value |-> FALSE]}
    /\ Try("check_accounting_balance",
           check_accounting_balance(block, self.rules, FALSE, self.factories),
           "return_ok", 0)
    /\ UNCHANGED <<block, self, constants>>
    /\ UNCHANGED codecVars

\* the only call that is handed self.bypass_range_proof_verification
CheckAccountingBalance ==
    /\ vpc = "check_accounting_balance"
    /\ flags' = flags \cup {[fn |-> "check_accounting_balance",
                             value |-> self.bypass_range_proof_verification]}
    /\ Try("check_accounting_balance",
           check_accounting_balance(block, self.rules, self.bypass_range_proof_verification,
                                    self.factories),
           "return_ok", 0)
    /\ UNCHANGED <<block, self, constants>>
    /\ UNCHANGED codecVars

\* debug!(...); Ok(())
ReturnOk ==
    /\ vpc = "return_ok"
    /\ ret' = Some(VOk)
    /\ vpc' = "done"
    /\ UNCHANGED <<block, self, idx, constants, calls, flags>>
    /\ UNCHANGED codecVars

NextValidator ==
    \/ GenesisGuard
    \/ ConsensusConstants
    \/ ValidateVersions
    \/ CheckBlockWeight
    \/ CheckSortingAndDuplicates
    \/ CheckPermittedOutputTypes
    \/ CheckValidatorNodeRegistrationUtxo
    \/ CheckTotalBurned
    \/ CheckMaturity
    \/ CheckKernelLockHeight
    \/ CheckOutputFeatures
    \/ CheckCoinbaseOutput
    \/ CheckAccountingBalance
    \/ ReturnOk

SpecValidator == InitValidator /\ [][NextValidator]_vars

(***************************************************************************)
(* Properties of FixedByteArray, checked under SpecCodec                   *)
(***************************************************************************)

\* C1: round trip. For every b of at most 63 bytes and every trailing t,
\* deserializing serialize(from_bytes(b)) followed by t succeeds with a
\* buffer equal to from_bytes(b), consumes exactly 1 + len(b) bytes and
\* leaves the stream equal to t.
C1_RoundTrip ==
    cpc = "decoded" =>
        /\ Len(bytes) <= 63
        /\ dec.status = "Ok"
        /\ dec.value = fb.value
        /\ eqr
        /\ as_slice(dec.value[1]) = bytes
        /\ Len(writer) - Len(dec.buf) = 1 + Len(bytes)
        /\ dec.buf = tail

C1_Witness ==
    /\ cpc = "decoded"
    /\ Len(bytes) = 63
    /\ bytes[2] = 2
    /\ tail = <<1, 2, 3>>
    /\ dec.buf = <<1, 2, 3>>

\* C2: decode capacity check. A stream whose first byte L is in 64..255
\* fails with the length-exceeded error after a single one-byte read: only
\* the length byte is consumed and no buffer is built, whatever follows.
C2_CapacityCheck ==
    (cpc = "raw_decoded" /\ Len(bytes) >= 1 /\ bytes[1] >= 64 /\ bytes[1] <= 255) =>
        /\ dec.status = "Err"
        /\ dec.err = LengthExceeded
        /\ dec.calls = 1
        /\ dec.buf = Tail(bytes)
        /\ dec.value = None

C2_Witness ==
    /\ cpc = "raw_decoded"
    /\ Len(bytes) >= 65
    /\ bytes[1] = 64
    /\ dec.status = "Err"
    /\ Len(dec.buf) = Len(bytes) - 1

\* C3: from_bytes succeeds iff the input is at most 63 bytes long (64 fails
\* with the length error); on success len() is the input length, as_slice()
\* is the input and every storage byte past len is zero.
C3_FromBytesBoundary ==
    cpc \in {"built", "rejected"} =>
        /\ fb.ok <=> Len(bytes) <= 63
        /\ cpc = "built" <=> fb.ok
        /\ ~fb.ok => (fb.err = IncorrectLength /\ fb.value = None)
        /\ fb.ok =>
            /\ len(fb.value[1]) = Len(bytes)
            /\ as_slice(fb.value[1]) = bytes
            /\ Len(fb.value[1].elems) = 63
            /\ \A i \in (Len(bytes) + 1)..63 : fb.value[1].elems[i] = 0

C3_Witness ==
    /\ cpc = "built"
    /\ Len(bytes) = 63
    /\ bytes[63] = 255
    /\ fb.ok
    /\ is_full(fb.value[1])

\* C6: truncation. A stream whose first byte L is at most 63 and that has
\* fewer than L bytes after it fails with the unexpected-length error of
\* the byte reader (not the length-exceeded error) and yields no buffer;
\* with at least L bytes after it, deserialize succeeds and reads exactly L
\* payload bytes.
C6_Truncation ==
    (cpc = "raw_decoded" /\ Len(bytes) >= 1 /\ bytes[1] <= 63) =>
        IF Len(bytes) - 1 < bytes[1]
        THEN /\ dec.status = "Err"
             /\ dec.err = UnexpectedLength
             /\ dec.err # LengthExceeded
             /\ dec.value = None
        ELSE /\ dec.status = "Ok"
             /\ len(dec.value[1]) = bytes[1]
             /\ as_slice(dec.value[1]) = SubSeq(bytes, 2, bytes[1] + 1)
             /\ dec.calls = 1 + bytes[1]
             /\ dec.buf = SubSeq(bytes, bytes[1] + 2, Len(bytes))

C6_Witness ==
    /\ cpc = "raw_decoded"
    /\ Len(bytes) = 63
    /\ bytes[1] = 63
    /\ dec.status = "Err"
    /\ dec.err = UnexpectedLength

\* the logical content (len, elems[0..len]) of a buffer
Logical(x) == <<x.len, SubSeq(x.elems, 1, x.len)>>

\* C7: for two buffers obtained from new(), from_bytes or deserialize,
\* a == b holds iff they have the same len and the same first len bytes.
C7_EqualityLogical ==
    (cpc \in {"compared", "decoded"} /\ lhs # None /\ rhs # None) =>
        (eqr <=> Logical(lhs[1]) = Logical(rhs[1]))

C7_Witness ==
    /\ cpc = "compared"
    /\ bytes = <<1, 0>>
    /\ lhs = fb.value
    /\ rhs = Some(from_bytes(<<1>>).value[1])
    /\ ~eqr

Buffers == {lhs, rhs, fb.value, dec.value} \ {None}

\* C10: deserialize on any stream ends with an error or a buffer, never with
\* the panic of the unwrap (from_bytes on the decode path only sees at most
\* 63 collected bytes), and every buffer built by new(), from_bytes or
\* deserialize has 0 <= len <= 63.
C10_DecodeTotal ==
    /\ cpc \in {"decoded", "raw_decoded"} =>
        /\ dec.status \in {"Ok", "Err"}
        /\ dec.status = "Ok" <=> dec.value # None
        /\ dec.calls - 1 <= 63
    /\ \A o \in Buffers : o[1].len >= 0 /\ o[1].len <= 63 /\ Len(o[1].elems) = 63

C10_Witness ==
    /\ cpc = "raw_decoded"
    /\ Len(bytes) > 64
    /\ \A i \in 1..Len(bytes) : bytes[i] = 255
    /\ dec.status = "Err"

(***************************************************************************)
(* Properties of OrphanBlockValidator, checked under SpecValidator         *)
(***************************************************************************)
Call(fn, i) == [fn |-> fn, output |-> i]

\* the per-output calls of a body with n outputs, in body order
OutputCalls(n) ==
    [k \in 1..(2 * n) |->
        IF k % 2 = 1 THEN Call("check_permitted_output_types", (k + 1) \div 2)
        ELSE Call("check_validator_node_registration_utxo", k \div 2)]

\* every helper call of a complete run, in the declared order
DeclaredOrder(b) ==
    <<Call("validate_versions", 0), Call("check_block_weight", 0),
      Call("check_sorting_and_duplicates", 0)>>
    \o OutputCalls(Len(b.outputs))
    \o <<Call("check_total_burned", 0), Call("check_maturity", 0),
         Call("check_kernel_lock_height", 0), Call("check_output_features", 0),
         Call("check_coinbase_output", 0), Call("check_accounting_balance", 0)>>

\* does the block, validated with the given flag, fail the call c
Rejects(b, bypass, c) ==
    CASE c.fn \in BlockChecks -> c.fn \in b.violations
      [] c.fn = "check_permitted_output_types" -> ~b.outputs[c.output].permitted_type
      [] c.fn = "check_validator_node_registration_utxo" -> ~b.outputs[c.output].valid_vn_registration
      [] c.fn = "check_accounting_balance" ->
            ~b.balance_closes \/ (~bypass /\ ~b.range_proofs_valid)

Failing(b, bypass) ==
    {k \in 1..Len(DeclaredOrder(b)) : Rejects(b, bypass, DeclaredOrder(b)[k])}

Min(S) == CHOOSE m \in S : \A n \in S : m <= n

HelperCalls == IF calls = <<>> THEN <<>> ELSE Tail(calls)

\* C4: for height # 0 validate invokes the helpers in the declared order,
\* returns the error of the first one that fails and invokes nothing after
\* it (a block over the weight limit whose balance is also off gets the
\* weight error), and returns Ok only after every helper ran and passed.
C4_FailFastOrder ==
    (vpc = "done" /\ block.height # 0) =>
        LET order == DeclaredOrder(block)
            bad == Failing(block, self.bypass_range_proof_verification)
        IN /\ calls[1] = Call("consensus_constants", 0)
           /\ IF bad = {}
              THEN ret = Some(VOk) /\ HelperCalls = order
              ELSE /\ HelperCalls = SubSeq(order, 1, Min(bad))
                   /\ ret = Some(VErr(order[Min(bad)].fn, order[Min(bad)].output))
           /\ ret = Some(VOk) => HelperCalls = order
           /\ ("check_block_weight" \in block.violations /\ ~block.balance_closes
                 /\ "validate_versions" \notin block.violations)
               => ret = Some(VErr("check_block_weight", 0))

C4_Witness ==
    /\ vpc = "done"
    /\ block.height = 2
    /\ block.violations = {"check_block_weight"}
    /\ ~block.balance_closes
    /\ ret = Some(VErr("check_block_weight", 0))
    /\ Len(calls) = 3

\* C5: a block of height 0 gets ValidatingGenesis whatever else is wrong
\* with it, before the constants lookup and before any helper is invoked;
\* a block of another height never gets ValidatingGenesis.
C5_GenesisGuard ==
    /\ (block.height = 0 /\ vpc # "validate") =>
            /\ vpc = "done"
            /\ ret = Some(ValidatingGenesis)
            /\ calls = <<>>
            /\ constants = None
            /\ flags = {}
    /\ block.height # 0 => ret # Some(ValidatingGenesis)

C5_Witness ==
    /\ vpc = "done"
    /\ block.height = 0
    /\ block.violations = {"check_block_weight", "check_coinbase_output"}
    /\ ~block.balance_closes
    /\ Len(block.outputs) = 2
    /\ ret = Some(ValidatingGenesis)

AllOutputsPass(b) ==
    \A i \in 1..Len(b.outputs) : b.outputs[i].permitted_type /\ b.outputs[i].valid_vn_registration

\* C8: the flag fixed by new is what check_accounting_balance receives, and
\* no other helper receives it. For a block passing every earlier step: if
\* the balance closes and the range proofs are invalid, validate returns Ok
\* with the flag true and the accounting error with the flag false; if the
\* balance does not close it returns the accounting error for both values.
C8_BypassFlag ==
    /\ flags \subseteq {[fn |-> "check_accounting_balance",
                         value |-> self.bypass_range_proof_verification]}
    /\ (flags # {}) <=> (\E k \in 1..Len(calls) : calls[k].fn = "check_accounting_balance")
    /\ (vpc = "done" /\ block.height # 0 /\ block.violations = {} /\ AllOutputsPass(block)) =>
        /\ (block.balance_closes /\ ~block.range_proofs_valid) =>
              ret = IF self.bypass_range_proof_verification THEN Some(VOk)
                    ELSE Some(VErr("check_accounting_balance", 0))
        /\ ~block.balance_closes => ret = Some(VErr("check_accounting_balance", 0))
        /\ (block.balance_closes /\ block.range_proofs_valid) => ret = Some(VOk)

C8_Witness ==
    /\ vpc = "done"
    /\ block.height # 0
    /\ block.violations = {}
    /\ AllOutputsPass(block)
    /\ block.balance_closes
    /\ ~block.range_proofs_valid
    /\ self.bypass_range_proof_verification
    /\ flags = {[fn |-> "check_accounting_balance", value |-> TRUE]}
    /\ ret = Some(VOk)

OutputFn == {"check_permitted_output_types", "check_validator_node_registration_utxo"}

\* the first (output, check) pair the block fails, outputs in body order
\* and the type check before the registration check; <<>> if there is none
FirstOutputFailure(b) ==
    LET bad == {i \in 1..Len(b.outputs) :
                    ~b.outputs[i].permitted_type \/ ~b.outputs[i].valid_vn_registration}
    IN IF bad = {} THEN <<>>
       ELSE LET i == Min(bad) IN
            <<Call(IF ~b.outputs[i].permitted_type THEN "check_permitted_output_types"
                   ELSE "check_validator_node_registration_utxo", i)>>

\* C9: the outputs are visited in body order, the type check of an output
\* before its registration check and both before the next output; the
\* error is that of the first failing (output, check) pair, and nothing of
\* check_total_burned or later runs after an output check has failed.
C9_PerOutputOrder ==
    LET f == FirstOutputFailure(block)
        reached == \E k \in 1..Len(calls) : calls[k].fn \in OutputFn
        outs == SelectSeq(calls, LAMBDA c : c.fn \in OutputFn)
    IN /\ \A k \in 1..Len(outs) : outs[k] = OutputCalls(Len(block.outputs))[k]
       /\ (vpc = "done" /\ reached /\ f # <<>>) =>
            /\ ret = Some(VErr(f[1].fn, f[1].output))
            /\ calls[Len(calls)] = f[1]
            /\ \A k \in 1..Len(calls) :
                 calls[k].fn \notin {"check_total_burned", "check_maturity",
                                     "check_kernel_lock_height", "check_output_features",
                                     "check_coinbase_output", "check_accounting_balance"}
       /\ (vpc = "done" /\ reached /\ f = <<>>) => Len(outs) = 2 * Len(block.outputs)

C9_Witness ==
    /\ vpc = "done"
    /\ Len(block.outputs) = 2
    /\ block.outputs[1] = [permitted_type |-> TRUE, valid_vn_registration |-> FALSE]
    /\ block.outputs[2] = [permitted_type |-> FALSE, valid_vn_registration |-> TRUE]
    /\ block.violations = {"check_total_burned"}
    /\ ret = Some(VErr("check_validator_node_registration_utxo", 1))

====
